---- MODULE Spec2Model ----
(***************************************************************************)
(* State-machine model of the aidev-backend persistence layer              *)
(* (DatabaseService), the project/file/chat request handlers that call it, *)
(* and the part of the AI gateway the chat handler depends on.             *)
(*                                                                         *)
(* Every SQL statement is one atomic step of the storage engine.  A        *)
(* handler that awaits several statements is a sequence of steps of one    *)
(* worker, and steps of different workers interleave.  NOW() is a logical  *)
(* clock: every write statement executes at a fresh, larger timestamp.     *)
(* JavaScript strings are sequences of UTF-16 code units.                  *)
(***************************************************************************)
EXTENDS Integers, Sequences, FiniteSets, TLC

\* ------------------------------------------------------------------ bounds
MaxProjects == 2
MaxTime == 3
MaxWorkers == 2

\* --------------------------------------------------------------- constants
NameLimit == 255
DefaultLimit == 50

Workers == 1..MaxWorkers

\* rows[0] of an empty result set, a missing body key, a null column.
Absent == [absent |-> TRUE]
Undefined == [t |-> "undefined"]
Null == [t |-> "null"]
Str(s) == [t |-> "string", v |-> s]
Num(n) == [t |-> "number", v |-> n]
\* An opaque JSON object.
Obj(k) == [t |-> "object", v |-> k]

\* The k-th identifier the storage engine generates (a UUID).
Uuid(k) == [t |-> "uuid", v |-> k]

\* The x-user-id header values.
Alice == Str(<<97>>)
Bob == Str(<<98>>)
Users == {Alice, Bob}

ProjectIds == {Uuid(k) : k \in 1..MaxProjects}
\* A well-formed identifier the storage engine never issued.
UnknownId == Uuid(0)
RequestIds == ProjectIds \cup {UnknownId}

IsString(x) == x.t = "string"
\* JavaScript truthiness of a request-body value.
Truthy(x) ==
  CASE x.t = "string" -> x.v # <<>>
    [] x.t = "number" -> x.v # 0
    [] x.t \in {"uuid", "object"} -> TRUE
    [] OTHER -> FALSE

\* ------------------------------------------------------------ text helpers
Space == 32

RECURSIVE TrimLeft(_)
TrimLeft(s) ==
  IF s # <<>> /\ Head(s) = Space THEN TrimLeft(Tail(s)) ELSE s

RECURSIVE TrimRight(_)
TrimRight(s) ==
  IF s # <<>> /\ s[Len(s)] = Space THEN TrimRight(SubSeq(s, 1, Len(s) - 1)) ELSE s

\* String.prototype.trim
Trim(s) == TrimRight(TrimLeft(s))

IsLead(u) == u >= 55296 /\ u <= 56319
IsTrail(u) == u >= 56320 /\ u <= 57343

\* content.length: the number of UTF-16 code units, not of bytes.
ByteLengthUnits(s) == Len(s)

\* Buffer.byteLength(content, "utf8"): counts per UTF-16 code unit, a
\* surrogate pair as four bytes and an unpaired surrogate as the three bytes
\* of U+FFFD.
RECURSIVE ByteLength(_)
ByteLength(s) ==
  IF s = <<>> THEN 0
  ELSE LET u == Head(s) IN
    IF u < 128 THEN 1 + ByteLength(Tail(s))
    ELSE IF u < 2048 THEN 2 + ByteLength(Tail(s))
    ELSE IF IsLead(u) /\ Len(s) >= 2 /\ IsTrail(s[2]) THEN 4 + ByteLength(Tail(Tail(s)))
    ELSE 3 + ByteLength(Tail(s))

\* The text the driver puts on the wire and the storage engine keeps: the
\* string's code points, an unpaired surrogate replaced by U+FFFD.
RECURSIVE ToCodePoints(_)
ToCodePoints(s) ==
  IF s = <<>> THEN <<>>
  ELSE LET u == Head(s) IN
    IF IsLead(u) /\ Len(s) >= 2 /\ IsTrail(s[2])
      THEN <<65536 + (u - 55296) * 1024 + (s[2] - 56320)>> \o ToCodePoints(Tail(Tail(s)))
    ELSE IF IsLead(u) \/ IsTrail(u) THEN <<65533>> \o ToCodePoints(Tail(s))
    ELSE <<u>> \o ToCodePoints(Tail(s))

\* The UTF-8 octets of one code point.
Utf8Octets(c) ==
  IF c < 128 THEN <<c>>
  ELSE IF c < 2048 THEN <<192 + (c \div 64), 128 + (c % 64)>>
  ELSE IF c < 65536 THEN <<224 + (c \div 4096), 128 + ((c \div 64) % 64), 128 + (c % 64)>>
  ELSE <<240 + (c \div 262144), 128 + ((c \div 4096) % 64),
         128 + ((c \div 64) % 64), 128 + (c % 64)>>

RECURSIVE Utf8Encode(_)
Utf8Encode(cps) ==
  IF cps = <<>> THEN <<>> ELSE Utf8Octets(Head(cps)) \o Utf8Encode(Tail(cps))

\* ------------------------------------------------------------------ tables
ActiveText == <<97, 99, 116, 105, 118, 101>>
DeletedText == <<100, 101, 108, 101, 116, 101, 100>>
ArchivedText == <<97, 114, 99, 104>>

\* The value the driver binds for a JavaScript parameter: a string as it is,
\* a number as its decimal text, null and undefined as NULL.
PgValue(x) ==
  CASE x.t = "number" -> Str(<<48 + x.v>>)
    [] x.t = "undefined" -> Null
    [] OTHER -> x

\* Column defaults of the projects table.
ProjectDefaults(t) ==
  [status |-> Str(ActiveText), settings |-> Null, updated_at |-> t]

\* The row of projects with this id, or Absent.
RowOf(P, id) == IF \E p \in P : p.id = id THEN CHOOSE p \in P : p.id = id ELSE Absent

\* The identifier generated for the next inserted project.
NextId(P) == Uuid(Cardinality(P) + 1)

\* createProject: INSERT INTO projects ... RETURNING *
CreateProject(P, t, userId, name, description, template) ==
  LET d == ProjectDefaults(t)
      row == [id |-> NextId(P), user_id |-> userId, name |-> PgValue(name),
              description |-> PgValue(description), template_used |-> PgValue(template),
              status |-> d.status, settings |-> d.settings, updated_at |-> d.updated_at]
  IN [projects |-> P \cup {row}, ret |-> row]

\* getProject: WHERE id = $1 AND user_id = $2 AND status = 'active'; rows[0]
GetProject(P, projectId, userId) ==
  LET hit == {p \in P : p.id = projectId /\ p.user_id = userId /\ p.status = Str(ActiveText)}
  IN IF hit = {} THEN Absent ELSE CHOOSE p \in hit : TRUE

\* ORDER BY updated_at, the direction left out.
RECURSIVE SortByUpdatedAsc(_)
SortByUpdatedAsc(S) ==
  IF S = {} THEN <<>>
  ELSE LET m == CHOOSE x \in S : \A y \in S : x.updated_at <= y.updated_at
       IN <<m>> \o SortByUpdatedAsc(S \ {m})

\* ORDER BY updated_at DESC
RECURSIVE SortByUpdatedDesc(_)
SortByUpdatedDesc(S) ==
  IF S = {} THEN <<>>
  ELSE LET m == CHOOSE x \in S : \A y \in S : y.updated_at <= x.updated_at
       IN <<m>> \o SortByUpdatedDesc(S \ {m})

\* ORDER BY created_at DESC
RECURSIVE SortByCreatedDesc(_)
SortByCreatedDesc(S) ==
  IF S = {} THEN <<>>
  ELSE LET m == CHOOSE x \in S : \A y \in S : y.created_at <= x.created_at
       IN <<m>> \o SortByCreatedDesc(S \ {m})

\* The rows as the query returned them, not reversed.
KeepOrder(s) == s

\* Array.prototype.reverse
Reverse(s) == [i \in 1..Len(s) |-> s[Len(s) + 1 - i]]

\* getProjects: the caller's active projects with their outer-joined
\* aggregates, ORDER BY updated_at DESC.
GetProjects(P, F, C, userId) ==
  LET mine == {p \in P : p.user_id = userId /\ p.status = Str(ActiveText)}
      summary(p) ==
        [id |-> p.id, user_id |-> p.user_id, name |-> p.name,
         description |-> p.description, template_used |-> p.template_used,
         status |-> p.status, settings |-> p.settings, updated_at |-> p.updated_at,
         file_count |-> Cardinality({f \in F : f.project_id = p.id}),
         conversation_count |-> Cardinality({c \in C : c.project_id = p.id})]
  IN SortByUpdatedDesc({summary(p) : p \in mine})
\* ------------------------------------------------- query builder (update)
ProjectColumns ==
  {"id", "user_id", "name", "description", "template_used", "status", "settings", "updated_at"}

\* Object.entries(updates): the i-th entry becomes "key = $i" with the
\* placeholders numbered in reverse.
BuildFieldsReversed(updates) ==
  [i \in 1..Len(updates) |-> [col |-> updates[i][1], param |-> Len(updates) + 1 - i]]

\* Object.entries(updates).forEach: the i-th entry becomes "key = $i".
BuildFields(updates) ==
  [i \in 1..Len(updates) |-> [col |-> updates[i][1], param |-> i]]

\* The bind values: the entries' values in order, then projectId, userId.
BuildValues(updates, projectId, userId) ==
  [i \in 1..Len(updates) |-> updates[i][2]] \o <<projectId, userId>>

\* SET col = $param for every field, left to right.
RECURSIVE SetColumns(_, _, _)
SetColumns(row, fields, values) ==
  IF fields = <<>> THEN row
  ELSE LET f == Head(fields)
       IN SetColumns([row EXCEPT ![f.col] = PgValue(values[f.param])], Tail(fields), values)

\* UPDATE projects SET <fields>, updated_at = NOW()
\*   WHERE id = $idParam AND user_id = $userParam RETURNING *
ExecUpdate(P, t, fields, values, idParam, userParam) ==
  LET hit == {p \in P : p.id = values[idParam] /\ p.user_id = values[userParam]}
      new(p) == [SetColumns(p, fields, values) EXCEPT !.updated_at = t]
  IN [projects |-> (P \ hit) \cup {new(p) : p \in hit},
      ret |-> IF hit = {} THEN Absent ELSE new(CHOOSE p \in hit : TRUE)]

\* updateProject that sends the statement even when no field was given.
UpdateProjectNoGuard(P, t, projectId, userId, updates) ==
  LET fields == BuildFields(updates)
      values == BuildValues(updates, projectId, userId)
      paramCount == Len(updates) + 1
      r == ExecUpdate(P, t, fields, values, paramCount, paramCount + 1)
  IN [threw |-> FALSE, queries |-> 1, projects |-> r.projects, ret |-> r.ret]

\* updateProject: throws before any query when there is no field; a column
\* the table does not have makes the statement fail.
UpdateProject(P, t, projectId, userId, updates) ==
  LET fields == BuildFields(updates)
      values == BuildValues(updates, projectId, userId)
      paramCount == Len(updates) + 1
  IN IF Len(fields) = 0
       THEN [threw |-> TRUE, queries |-> 0, projects |-> P, ret |-> Absent]
     ELSE IF \E i \in 1..Len(fields) : fields[i].col \notin ProjectColumns
       THEN [threw |-> TRUE, queries |-> 1, projects |-> P, ret |-> Absent]
     ELSE LET r == ExecUpdate(P, t, fields, values, paramCount, paramCount + 1)
          IN [threw |-> FALSE, queries |-> 1, projects |-> r.projects, ret |-> r.ret]

\* deleteProject that removes the owner test.
DeleteProjectAnyOwner(P, t, projectId, userId) ==
  LET hit == {p \in P : p.id = projectId}
      new(p) == [p EXCEPT !.status = Str(DeletedText), !.updated_at = t]
  IN [projects |-> (P \ hit) \cup {new(p) : p \in hit},
      ret |-> IF hit = {} THEN Absent ELSE new(CHOOSE p \in hit : TRUE)]

\* deleteProject: UPDATE projects SET status = 'deleted', updated_at = NOW()
\*   WHERE id = $1 AND user_id = $2 RETURNING *
DeleteProject(P, t, projectId, userId) ==
  LET hit == {p \in P : p.id = projectId /\ p.user_id = userId}
      new(p) == [p EXCEPT !.status = Str(DeletedText), !.updated_at = t]
  IN [projects |-> (P \ hit) \cup {new(p) : p \in hit},
      ret |-> IF hit = {} THEN Absent ELSE new(CHOOSE p \in hit : TRUE)]

\* UPDATE projects SET updated_at = NOW() WHERE id = $1
BumpProject(P, t, projectId) ==
  {IF p.id = projectId THEN [p EXCEPT !.updated_at = t] ELSE p : p \in P}

\* ----------------------------------------------------------- conversations

\* saveConversation, first statement: INSERT INTO conversations ... RETURNING *
InsertConversation(C, t, projectId, userId, message, response, aiModel, tokensUsed) ==
  LET row == [id |-> Cardinality(C) + 1, project_id |-> projectId, user_id |-> userId,
              message |-> message, response |-> response, ai_model |-> aiModel,
              tokens_used |-> tokensUsed, created_at |-> t]
  IN [conversations |-> C \cup {row}, ret |-> row]

\* The first n elements of a sequence.
Take(s, n) == SubSeq(s, 1, IF n < Len(s) THEN n ELSE Len(s))

\* getConversations: JOIN projects, WHERE c.project_id = $1 AND p.user_id = $2
\*   ORDER BY c.created_at DESC LIMIT $3; rows.reverse()
GetConversations(P, C, projectId, userId, limit) ==
  LET hit == {c \in C : c.project_id = projectId
                        /\ \E p \in P : p.id = c.project_id /\ p.user_id = userId}
  IN Reverse(Take(SortByCreatedDesc(hit), limit))
\* ------------------------------------------------------------ project files
\* Lexicographic order of two texts by code point.
RECURSIVE TextLess(_, _)
TextLess(a, b) ==
  IF b = <<>> THEN FALSE
  ELSE IF a = <<>> THEN TRUE
  ELSE IF Head(a) # Head(b) THEN Head(a) < Head(b)
  ELSE TextLess(Tail(a), Tail(b))

\* ORDER BY file_path
RECURSIVE SortByPath(_)
SortByPath(S) ==
  IF S = {} THEN <<>>
  ELSE LET m == CHOOSE x \in S : \A y \in S : ~TextLess(y.file_path.v, x.file_path.v)
       IN <<m>> \o SortByPath(S \ {m})

\* The text column kept for a string parameter.
StoredText(x) == IF x.t = "string" THEN Str(ToCodePoints(x.v)) ELSE PgValue(x)

FileRow(t, projectId, filePath, fileName, content, fileType, sizeBytes) ==
  [project_id |-> projectId, file_path |-> StoredText(filePath),
   file_name |-> StoredText(fileName), content |-> StoredText(content),
   file_type |-> StoredText(fileType), size_bytes |-> sizeBytes, updated_at |-> t]

SameKey(f, row) == f.project_id = row.project_id /\ f.file_path = row.file_path

\* The upsert whose DO UPDATE leaves file_name out.
UpsertFileKeepName(F, t, projectId, filePath, fileName, content, fileType, sizeBytes) ==
  LET row == FileRow(t, projectId, filePath, fileName, content, fileType, sizeBytes)
      old == {f \in F : SameKey(f, row)}
      new == IF old = {} THEN row
             ELSE [row EXCEPT !.file_name = (CHOOSE f \in old : TRUE).file_name]
  IN [files |-> (F \ old) \cup {new}, ret |-> new]

\* The insert without its ON CONFLICT clause, on a table without the
\* unique key: a second save of a path adds a second row.
UpsertFileInsertOnly(F, t, projectId, filePath, fileName, content, fileType, sizeBytes) ==
  LET row == FileRow(t, projectId, filePath, fileName, content, fileType, sizeBytes)
  IN [files |-> F \cup {row}, ret |-> row]

\* saveProjectFile, first statement: INSERT ... ON CONFLICT (project_id,
\* file_path) DO UPDATE SET content, file_name, file_type, size_bytes,
\* updated_at = NOW() RETURNING *
UpsertFile(F, t, projectId, filePath, fileName, content, fileType, sizeBytes) ==
  LET row == FileRow(t, projectId, filePath, fileName, content, fileType, sizeBytes)
      old == {f \in F : SameKey(f, row)}
  IN [files |-> (F \ old) \cup {row}, ret |-> row]

\* getProjectFiles whose join forgets the owner.
GetProjectFilesAnyOwner(P, F, projectId, userId) ==
  SortByPath({f \in F : f.project_id = projectId})

\* getProjectFiles: JOIN projects, WHERE pf.project_id = $1 AND p.user_id = $2
\*   ORDER BY pf.file_path
GetProjectFiles(P, F, projectId, userId) ==
  SortByPath({f \in F : f.project_id = projectId
                        /\ \E p \in P : p.id = f.project_id /\ p.user_id = userId})

\* getProjectFile: the ownership-joined point lookup; rows[0]
GetProjectFile(P, F, projectId, filePath, userId) ==
  LET hit == {f \in F : f.project_id = projectId /\ f.file_path = StoredText(filePath)
                        /\ \E p \in P : p.id = f.project_id /\ p.user_id = userId}
  IN IF hit = {} THEN Absent ELSE CHOOSE f \in hit : TRUE

\* A deletion that does not join the projects table.
DeleteProjectFileAnyOwner(P, F, projectId, filePath, userId) ==
  LET hit == {f \in F : f.project_id = projectId /\ f.file_path = StoredText(filePath)}
  IN [files |-> F \ hit, ret |-> IF hit = {} THEN Absent ELSE CHOOSE f \in hit : TRUE]

\* deleteProjectFile: DELETE FROM project_files USING projects ... RETURNING pf.*
DeleteProjectFile(P, F, projectId, filePath, userId) ==
  LET hit == {f \in F : f.project_id = projectId /\ f.file_path = StoredText(filePath)
                        /\ \E p \in P : p.id = f.project_id /\ p.user_id = userId}
  IN [files |-> F \ hit, ret |-> IF hit = {} THEN Absent ELSE CHOOSE f \in hit : TRUE]
\* ---------------------------------------------------------- request inputs
\* A request body is the sequence of its (key, value) entries, in the order
\* Object.keys yields them.
HasKey(body, key) == \E i \in 1..Len(body) : body[i][1] = key
Field(body, key) ==
  IF HasKey(body, key) THEN body[CHOOSE i \in 1..Len(body) : body[i][1] = key][2]
  ELSE Undefined

\* An identifier the UUID pattern rejects.
MalformedId == Str(<<120>>)
\* uuidRegex.test(id)
UuidTest(id) == id.t = "uuid"

TextP == <<112>>
TextQ == <<32, 113>>
TextD == <<100>>
TextText == <<116, 101, 120, 116>>
TextJson == <<106, 115, 111, 110>>
TextDashboard == <<100, 97, 115, 104, 98, 111, 97, 114, 100>>
PathA == <<97>>
PathAppTsx == <<115, 114, 99, 47, 65, 112, 112, 46, 116, 115, 120>>
LongName == [i \in 1..(NameLimit + 1) |-> 112]

PutBodies ==
  { <<>>,
    << <<"id", Uuid(2)>>, <<"user_id", Bob>> >>,
    << <<"status", Str(ActiveText)>>, <<"user_id", Bob>> >>,
    << <<"description", Str(TextD)>>, <<"status", Str(ArchivedText)>> >>,
    << <<"settings", Obj(1)>>, <<"name", Str(<<>>)>> >>,
    << <<"name", Str(<<Space>>)>>, <<"description", Str(TextD)>> >>,
    << <<"name", Str(LongName)>> >> }

FileBodies ==
  { << <<"filePath", Str(PathA)>>, <<"fileName", Str(TextP)>>,
       <<"content", Str(<<104, 105>>)>> >>,
    << <<"filePath", Str(PathA)>>, <<"fileName", Str(TextD)>>,
       <<"content", Str(<<233, 55357, 56960>>)>>, <<"fileType", Str(TextJson)>> >>,
    << <<"filePath", Str(PathAppTsx)>>, <<"fileName", Str(TextP)>>,
       <<"content", Str(<<8364, 55357>>)>>, <<"fileType", Str(TextJson)>>,
       <<"sizeBytes", Num(9)>> >>,
    << <<"fileName", Str(TextP)>>, <<"content", Str(<<104, 105>>)>> >>,
    << <<"filePath", Str(PathA)>>, <<"fileName", Str(TextP)>> >>,
    << <<"filePath", Str(PathA)>>, <<"fileName", Str(TextP)>>, <<"content", Num(7)>> >> }

RequestPaths == {Str(PathA), Str(PathAppTsx)}

\* The requests the clients send: a few of each kind, accepted and rejected.
CreateRequests ==
  { << <<"name", Str(TextP)>> >>,
    << <<"name", Str(TextQ)>>, <<"description", Str(TextD)>>,
       <<"template", Str(TextDashboard)>> >>,
    << <<"description", Str(TextD)>> >> }

PutRequests ==
  { <<>>,
    << <<"status", Str(ActiveText)>>, <<"user_id", Bob>> >>,
    << <<"description", Str(TextD)>>, <<"status", Str(ArchivedText)>> >>,
    << <<"name", Str(<<>>)>> >> }

FileRequests ==
  { << <<"filePath", Str(PathAppTsx)>>, <<"fileName", Str(TextD)>>,
       <<"content", Str(<<233, 55357, 56960>>)>>, <<"fileType", Str(TextJson)>> >>,
    << <<"filePath", Str(PathAppTsx)>>, <<"fileName", Str(TextP)>>,
       <<"content", Str(<<8364, 55357>>)>>, <<"sizeBytes", Num(9)>> >>,
    << <<"filePath", Str(PathA)>>, <<"fileName", Str(TextP)>> >> }

\* getTemplateFiles: the files of a known template (contents abridged to a
\* few characters of theirs), [] for any other name.
TemplateFiles(template) ==
  IF template = Str(TextDashboard)
    THEN << [path |-> Str(PathAppTsx), name |-> Str(TextP),
             content |-> Str(<<105, 109, 112>>), type |-> Str(TextText)] >>
  ELSE <<>>

\* ------------------------------------------------------------- validation
\* validateProjectData: the list of error messages.
ValidateProjectData(data) ==
  LET name == Field(data, "name")
      description == Field(data, "description")
      template == Field(data, "template")
  IN (IF ~Truthy(name) \/ ~IsString(name) \/ Len(Trim(name.v)) = 0
        THEN <<"name required">> ELSE <<>>)
     \o (IF Truthy(name) /\ IsString(name) /\ Len(name.v) > NameLimit
        THEN <<"name too long">> ELSE <<>>)
     \o (IF Truthy(description) /\ ~IsString(description)
        THEN <<"description not a string">> ELSE <<>>)
     \o (IF Truthy(template) /\ ~IsString(template)
        THEN <<"template not a string">> ELSE <<>>)

AllowedFields == {"name", "description", "status", "settings"}
IsAllowed(e) == e[1] \in AllowedFields

\* A filter that lets every key through.
IsAnyKey(e) == TRUE
FilteredUpdatesAll(updates) == SelectSeq(updates, IsAnyKey)

\* filteredUpdates: the entries of the body whose key is allowed.
FilteredUpdates(updates) == SelectSeq(updates, IsAllowed)

\* ------------------------------------------------------------ the handlers
\* A handler (or the part of it up to its first write) is given the tables,
\* the timestamp a statement of it would take, the request and whether the
\* storage engine answers (ok); it yields the response status, the number of
\* persistence calls made and what it read or the tables it leaves.

\* router.get("/")
GetProjectsRoute(P, F, C, userId, ok) ==
  IF ~ok THEN [status |-> 500, calls |-> 1, data |-> <<>>]
  ELSE [status |-> 200, calls |-> 1, data |-> GetProjects(P, F, C, userId)]

\* router.get("/:id")
GetProjectRoute(P, F, C, id, userId, ok) ==
  IF ~UuidTest(id) THEN [status |-> 400, calls |-> 0, files |-> <<>>, conversations |-> <<>>]
  ELSE IF ~ok THEN [status |-> 500, calls |-> 1, files |-> <<>>, conversations |-> <<>>]
  ELSE IF GetProject(P, id, userId) = Absent
    THEN [status |-> 404, calls |-> 1, files |-> <<>>, conversations |-> <<>>]
  ELSE [status |-> 200, calls |-> 3, files |-> GetProjectFiles(P, F, id, userId),
        conversations |-> GetConversations(P, C, id, userId, DefaultLimit)]

\* router.put("/:id")
PutProject(P, t, id, userId, body, ok) ==
  LET filtered == FilteredUpdates(body)
      r == UpdateProject(P, t, id, userId, filtered)
  IN IF ~UuidTest(id) THEN [status |-> 400, calls |-> 0, projects |-> P]
     ELSE IF Len(filtered) = 0 THEN [status |-> 400, calls |-> 0, projects |-> P]
     ELSE IF Truthy(Field(filtered, "name")) /\ Len(ValidateProjectData(filtered)) > 0
       THEN [status |-> 400, calls |-> 0, projects |-> P]
     ELSE IF ~ok \/ r.threw THEN [status |-> 500, calls |-> 1, projects |-> P]
     ELSE IF r.ret = Absent THEN [status |-> 404, calls |-> 1, projects |-> r.projects]
     ELSE [status |-> 200, calls |-> 1, projects |-> r.projects]

\* router.delete("/:id")
DeleteProjectRoute(P, t, id, userId, ok) ==
  LET r == DeleteProject(P, t, id, userId)
  IN IF ~UuidTest(id) THEN [status |-> 400, calls |-> 0, projects |-> P]
     ELSE IF ~ok THEN [status |-> 500, calls |-> 1, projects |-> P]
     ELSE IF r.ret = Absent THEN [status |-> 404, calls |-> 1, projects |-> r.projects]
     ELSE [status |-> 200, calls |-> 1, projects |-> r.projects]

\* router.get("/:id/files/*")
GetFileRoute(P, F, id, filePath, userId, ok) ==
  IF ~ok THEN [status |-> 500, calls |-> 1, data |-> Absent]
  ELSE LET file == GetProjectFile(P, F, id, filePath, userId)
       IN IF file = Absent THEN [status |-> 404, calls |-> 1, data |-> Absent]
          ELSE [status |-> 200, calls |-> 1, data |-> file]

\* router.delete("/:id/files")
DeleteFileRoute(P, F, id, body, userId, ok) ==
  LET filePath == Field(body, "filePath")
      r == DeleteProjectFile(P, F, id, filePath, userId)
  IN IF ~Truthy(filePath) THEN [status |-> 400, calls |-> 0, files |-> F]
     ELSE IF ~ok THEN [status |-> 500, calls |-> 1, files |-> F]
     ELSE IF r.ret = Absent THEN [status |-> 404, calls |-> 1, files |-> r.files]
     ELSE [status |-> 200, calls |-> 1, files |-> r.files]

\* router.get("/conversations/:projectId") for the default limit
ConversationsRoute(P, C, id, userId, ok) ==
  IF ~UuidTest(id) THEN [status |-> 400, calls |-> 0, data |-> <<>>]
  ELSE IF ~ok THEN [status |-> 500, calls |-> 1, data |-> <<>>]
  ELSE IF GetProject(P, id, userId) = Absent THEN [status |-> 404, calls |-> 1, data |-> <<>>]
  ELSE [status |-> 200, calls |-> 2, data |-> GetConversations(P, C, id, userId, DefaultLimit)]

\* Not-a-Number.
NaN == [t |-> "nan"]

IsDigit(u) == u >= 48 /\ u <= 57

\* The longest prefix of decimal digits.
RECURSIVE DigitPrefix(_)
DigitPrefix(s) ==
  IF s # <<>> /\ IsDigit(Head(s)) THEN <<Head(s)>> \o DigitPrefix(Tail(s)) ELSE <<>>

\* The number a sequence of decimal digits denotes.
RECURSIVE DecimalValue(_)
DecimalValue(d) ==
  IF d = <<>> THEN 0 ELSE 10 * DecimalValue(SubSeq(d, 1, Len(d) - 1)) + (d[Len(d)] - 48)

\* parseInt(x) of a query value without a radix prefix: leading blanks are
\* skipped, then an optional sign and the longest run of digits is read;
\* NaN when there is no digit or no value.
ParseInt(x) ==
  IF ~IsString(x) THEN NaN
  ELSE LET s == TrimLeft(x.v)
           signed == s # <<>> /\ Head(s) \in {43, 45}
           digits == DigitPrefix(IF signed THEN Tail(s) ELSE s)
       IN IF digits = <<>> THEN NaN
          ELSE IF signed /\ Head(s) = 45 THEN Num(0 - DecimalValue(digits))
          ELSE Num(DecimalValue(digits))

MaxLimit == 100

\* parseInt(req.query.limit) || 50
QueryLimit(q) == IF Truthy(ParseInt(q)) THEN ParseInt(q).v ELSE DefaultLimit

\* Math.min(limit, 100)
PassedLimit(q) == IF QueryLimit(q) < MaxLimit THEN QueryLimit(q) ELSE MaxLimit

\* The values of the limit query parameter: none, "0", "1", "2", "200",
\* "abc", "-1", " 1x".
QueryLimits ==
  {Undefined, Str(<<48>>), Str(<<49>>), Str(<<50>>), Str(<<50, 48, 48>>),
   Str(<<97, 98, 99>>), Str(<<45, 49>>), Str(<<32, 49, 120>>)}

\* router.get("/conversations/:projectId") with the limit query parameter q:
\* the limit handed to getConversations and the rows answered.  The storage
\* engine refuses a negative LIMIT, which the handler answers with 500.
ConversationsLimitRoute(P, C, id, userId, q, ok) ==
  IF ~UuidTest(id) THEN [status |-> 400, calls |-> 0, limit |-> PassedLimit(q), data |-> <<>>]
  ELSE IF ~ok THEN [status |-> 500, calls |-> 1, limit |-> PassedLimit(q), data |-> <<>>]
  ELSE IF GetProject(P, id, userId) = Absent
    THEN [status |-> 404, calls |-> 1, limit |-> PassedLimit(q), data |-> <<>>]
  ELSE IF PassedLimit(q) < 0
    THEN [status |-> 500, calls |-> 2, limit |-> PassedLimit(q), data |-> <<>>]
  ELSE [status |-> 200, calls |-> 2, limit |-> PassedLimit(q),
        data |-> GetConversations(P, C, id, userId, PassedLimit(q))]

\* router.post("/:id/files") with the ownership check left out.
FilePostCheckNoOwner(P, id, userId, body, ok) ==
  IF ~Truthy(Field(body, "filePath")) \/ ~Truthy(Field(body, "fileName"))
     \/ Field(body, "content") = Undefined THEN 400
  ELSE IF ~ok THEN 500
  ELSE IF ~\E p \in P : p.id = id /\ p.status = Str(ActiveText) THEN 404
  ELSE IF ~IsString(Field(body, "content")) THEN 500
  ELSE 200

\* router.post("/:id/files") up to the call of db.saveProjectFile, whose
\* Buffer.byteLength throws for a content that is not a string: the status
\* of the early response, 200 when the save goes ahead.
FilePostCheck(P, id, userId, body, ok) ==
  IF ~Truthy(Field(body, "filePath")) \/ ~Truthy(Field(body, "fileName"))
     \/ Field(body, "content") = Undefined THEN 400
  ELSE IF ~ok THEN 500
  ELSE IF GetProject(P, id, userId) = Absent THEN 404
  ELSE IF ~IsString(Field(body, "content")) THEN 500
  ELSE 200
\* -------------------------------------------------------- POST /message
MessageLimit == 10000
TextHello == <<32, 104>>
TextCode == <<99>>
\* What aiService.generateCode returns when the generation succeeds.
GenerationResult ==
  [success |-> TRUE, code |-> Str(TextCode), model |-> "claude-3-5-sonnet-20241022",
   usage |-> [total_tokens |-> 7]]

ChatBodies ==
  { << <<"message", Str(TextHello)>> >>,
    << <<"message", Str(<<Space>>)>> >>,
    << <<"message", Str(TextHello)>>, <<"projectId", MalformedId>> >> }
  \cup { << <<"message", Str(TextHello)>>, <<"projectId", id>> >> : id \in RequestIds }

\* validateChatMessage: the list of error messages.
ValidateChatMessage(data) ==
  LET message == Field(data, "message")
      projectId == Field(data, "projectId")
  IN (IF ~Truthy(message) \/ ~IsString(message) \/ Len(Trim(message.v)) = 0
        THEN <<"message required">> ELSE <<>>)
     \o (IF Truthy(message) /\ IsString(message) /\ Len(message.v) > MessageLimit
        THEN <<"message too long">> ELSE <<>>)
     \o (IF Truthy(projectId) /\ projectId.t \notin {"string", "uuid"}
        THEN <<"projectId not a string">> ELSE <<>>)

\* The handler without its two tests of the AI gateway.
MessageCheckIgnoresGateway(P, userId, body, ok, isConfigured, success) ==
  LET projectId == Field(body, "projectId")
  IN IF Len(ValidateChatMessage(body)) > 0 THEN 400
     ELSE IF Truthy(projectId) /\ ~UuidTest(projectId) THEN 400
     ELSE IF Truthy(projectId) /\ ~ok THEN 500
     ELSE IF Truthy(projectId) /\ GetProject(P, projectId, userId) = Absent THEN 404
     ELSE 200

\* router.post("/message") up to the conversation save: validation, the UUID
\* test, db.getProject and db.getProjectFiles, the isConfigured test and
\* aiService.generateCode (which succeeds or returns a failure value).  The
\* status of the early response; 200 when the handler goes on.
MessageCheck(P, userId, body, ok, isConfigured, success) ==
  LET projectId == Field(body, "projectId")
  IN IF Len(ValidateChatMessage(body)) > 0 THEN 400
     ELSE IF Truthy(projectId) /\ ~UuidTest(projectId) THEN 400
     ELSE IF Truthy(projectId) /\ ~ok THEN 500
     ELSE IF Truthy(projectId) /\ GetProject(P, projectId, userId) = Absent THEN 404
     ELSE IF ~isConfigured THEN 503
     ELSE IF ~success THEN 500
     ELSE 200

\* ------------------------------------------------------------- AI gateway
\* What this.anthropic.messages.create does: it answers, or it throws an error
\* carrying a message and (for an API error) an HTTP status; a connection
\* error carries no status.
ProviderMessage == "provider said no"
ProviderErrors ==
  {[threw |-> TRUE, status |-> s, message |-> ProviderMessage] :
     s \in {Num(401), Num(429), Num(400), Num(500), Undefined}}
ProviderAnswer == [threw |-> FALSE, status |-> Undefined, message |-> ""]
ProviderOutcomes == {ProviderAnswer} \cup ProviderErrors
\* The outcomes the requests of the model meet: an answer and a rate limit.
ProviderRequests ==
  {ProviderAnswer, [threw |-> TRUE, status |-> Num(429), message |-> ProviderMessage]}

UnknownText == <<85, 78, 75, 78, 79, 87, 78>>
NotConfiguredHint ==
  "AI service not configured - please add CLAUDE_API_KEY environment variable"
NotConfiguredShort == "AI service not configured"

\* The catch block of generateCode: the message chosen from error.status.
ClassifiedMessage(o) ==
  IF o.status = Num(401)
    THEN "Invalid API key - please check your CLAUDE_API_KEY environment variable"
  ELSE IF o.status = Num(429)
    THEN "Rate limit exceeded - please try again in a moment"
  ELSE IF o.status = Num(400)
    THEN "Invalid request - the prompt might be too long or contain unsupported content"
  ELSE o.message

\* The other three catch blocks: error.message as it came.
RawMessage(o) == o.message

\* Each capability: ret is the value returned, calls the number of
\* messages.create calls made on the way.
GenerateCode(isConfigured, o) ==
  IF ~isConfigured
    THEN [calls |-> 0, ret |-> [success |-> FALSE, error |-> NotConfiguredHint]]
  ELSE IF o.threw
    THEN [calls |-> 1,
          ret |-> [success |-> FALSE, error |-> ClassifiedMessage(o),
                   code |-> IF Truthy(o.status) THEN o.status ELSE Str(UnknownText)]]
  ELSE [calls |-> 1, ret |-> GenerationResult]

ExplainCode(isConfigured, o) ==
  IF ~isConfigured
    THEN [calls |-> 0, ret |-> [success |-> FALSE, error |-> NotConfiguredHint]]
  ELSE IF o.threw
    THEN [calls |-> 1, ret |-> [success |-> FALSE, error |-> RawMessage(o)]]
  ELSE [calls |-> 1,
        ret |-> [success |-> TRUE, explanation |-> Str(TextCode),
                 usage |-> [total_tokens |-> 7]]]

SuggestImprovements(isConfigured, o) ==
  IF ~isConfigured
    THEN [calls |-> 0, ret |-> [success |-> FALSE, error |-> NotConfiguredShort]]
  ELSE IF o.threw
    THEN [calls |-> 1, ret |-> [success |-> FALSE, error |-> RawMessage(o)]]
  ELSE [calls |-> 1,
        ret |-> [success |-> TRUE, suggestions |-> Str(TextCode),
                 usage |-> [total_tokens |-> 7]]]

GenerateTests(isConfigured, o) ==
  IF ~isConfigured
    THEN [calls |-> 0, ret |-> [success |-> FALSE, error |-> NotConfiguredShort]]
  ELSE IF o.threw
    THEN [calls |-> 1, ret |-> [success |-> FALSE, error |-> RawMessage(o)]]
  ELSE [calls |-> 1,
        ret |-> [success |-> TRUE, tests |-> Str(TextCode),
                 usage |-> [total_tokens |-> 7]]]

\* The bodies sent to /explain, /improve and /tests.
CodeLimit == 50000
LongCode == [i \in 1..(CodeLimit + 1) |-> 99]
CodeBodies ==
  { <<>>,
    << <<"code", Str(TextCode)>> >>,
    << <<"code", Str(<<Space>>)>> >>,
    << <<"code", Num(1)>> >>,
    << <<"code", Str(LongCode)>> >> }

\* The requests the clients send to the three routes.
CodeRequests == { <<>>, << <<"code", Str(TextCode)>> >> }

\* The input test the three routes share; TRUE when the body is refused.
CodeRefused(body) ==
  LET code == Field(body, "code")
  IN \/ ~Truthy(code) \/ ~IsString(code) \/ Len(Trim(code.v)) = 0
     \/ Len(code.v) > CodeLimit

\* router.post("/explain"), "/improve", "/tests": the status answered and the
\* number of provider calls made.
ExplainRoute(body, isConfigured, o) ==
  IF CodeRefused(body) THEN [status |-> 400, calls |-> 0]
  ELSE IF ~isConfigured THEN [status |-> 503, calls |-> 0]
  ELSE LET r == ExplainCode(isConfigured, o)
       IN [status |-> IF r.ret.success THEN 200 ELSE 500, calls |-> r.calls]

ImproveRoute(body, isConfigured, o) ==
  IF CodeRefused(body) THEN [status |-> 400, calls |-> 0]
  ELSE IF ~isConfigured THEN [status |-> 503, calls |-> 0]
  ELSE LET r == SuggestImprovements(isConfigured, o)
       IN [status |-> IF r.ret.success THEN 200 ELSE 500, calls |-> r.calls]

TestsRoute(body, isConfigured, o) ==
  IF CodeRefused(body) THEN [status |-> 400, calls |-> 0]
  ELSE IF ~isConfigured THEN [status |-> 503, calls |-> 0]
  ELSE LET r == GenerateTests(isConfigured, o)
       IN [status |-> IF r.ret.success THEN 200 ELSE 500, calls |-> r.calls]

\* ------------------------------------------------------------------- state
VARIABLES
  projects,       \* the projects table
  files,          \* the project_files table
  conversations,  \* the conversations table
  now,            \* the storage engine's clock: the last timestamp NOW() gave
  configured,     \* AIService.isConfigured(): a credential was given at startup
  workers,        \* the requests in flight: each one's position and locals
  last,           \* how the request that last left flight was answered
  arrived         \* per file key, the body of the upsert that arrived last

vars == <<projects, files, conversations, now, configured, workers, last, arrived>>

Idle == [pc |-> "idle"]

Init ==
  /\ projects = {}
  /\ files = {}
  /\ conversations = {}
  /\ now = 0
  /\ configured \in BOOLEAN
  /\ workers = [w \in Workers |-> Idle]
  /\ last = [route |-> "none", status |-> 0, wrote |-> FALSE, bumped |-> FALSE]
  /\ arrived = {}

\* A request that arrives is taken by the first free worker.
Free(w) == workers[w] = Idle /\ \A v \in Workers : v < w => workers[v] # Idle

\* The response of a request that saved a child row: its status, whether
\* the child row was written and whether the project's timestamp was set.
Finish(w, route, status, wrote, bumped) ==
  /\ workers' = [workers EXCEPT ![w] = Idle]
  /\ last' = [route |-> route, status |-> status, wrote |-> wrote, bumped |-> bumped]

\* GET /
GetProjectsReq(u, ok) ==
  /\ GetProjectsRoute(projects, files, conversations, u, ok).status \in {200, 500}
  /\ UNCHANGED vars

\* GET /:id
GetProjectReq(u, id, ok) ==
  /\ GetProjectRoute(projects, files, conversations, id, u, ok).status \in {200, 400, 404, 500}
  /\ UNCHANGED vars

\* GET /:id/files/*
GetFileReq(u, id, filePath, ok) ==
  /\ GetFileRoute(projects, files, id, filePath, u, ok).status \in {200, 404, 500}
  /\ UNCHANGED vars

\* GET /conversations/:projectId
ConversationsReq(u, id, q, ok) ==
  /\ ConversationsRoute(projects, conversations, id, u, ok).status \in {200, 400, 404, 500}
  /\ ConversationsLimitRoute(projects, conversations, id, u, q, ok).status
       \in {200, 400, 404, 500}
  /\ UNCHANGED vars

\* PUT /:id
PutProjectReq(u, id, body, ok) ==
  LET r == PutProject(projects, now + 1, id, u, body, ok)
  IN IF r.projects = projects THEN UNCHANGED vars
     ELSE /\ now < MaxTime
          /\ projects' = r.projects
          /\ now' = now + 1
          /\ UNCHANGED <<files, conversations, configured, workers, last, arrived>>

\* DELETE /:id
DeleteProjectReq(u, id, ok) ==
  LET r == DeleteProjectRoute(projects, now + 1, id, u, ok)
  IN IF r.projects = projects THEN UNCHANGED vars
     ELSE /\ now < MaxTime
          /\ projects' = r.projects
          /\ now' = now + 1
          /\ UNCHANGED <<files, conversations, configured, workers, last, arrived>>

\* DELETE /:id/files
DeleteFileReq(u, id, body, ok) ==
  LET r == DeleteFileRoute(projects, files, id, body, u, ok)
  IN IF r.files = files THEN UNCHANGED vars
     ELSE /\ now < MaxTime
          /\ files' = r.files
          /\ now' = now + 1
          /\ arrived' = {a \in arrived : ~(a.project_id = id
                                           /\ a.file_path = StoredText(Field(body, "filePath")))}
          /\ UNCHANGED <<projects, conversations, configured, workers, last>>

\* ------------------------------------------------------ POST /:id/files
\* The body of an upsert, as the storage engine received it.
Arrival(pid, filePath, fileName, content, fileType) ==
  [project_id |-> pid, file_path |-> StoredText(filePath), fileName |-> fileName,
   content |-> content, fileType |-> fileType]

Arrive(A, a) ==
  {x \in A : ~(x.project_id = a.project_id /\ x.file_path = a.file_path)} \cup {a}

\* saveProjectFile up to its first await: the size is computed from the
\* content and the upsert is sent.
SaveFileStatement(F, t, pid, filePath, fileName, content, fileType) ==
  UpsertFile(F, t, pid, filePath, fileName, content, fileType, ByteLength(content.v))

\* Validation and the ownership check (db.getProject).
FilePostReq(w, u, id, body, ok) ==
  /\ Free(w)
  /\ IF FilePostCheck(projects, id, u, body, ok) # 200 THEN UNCHANGED vars
     ELSE /\ workers' = [workers EXCEPT ![w] =
               [pc |-> "file_upsert", user |-> u, pid |-> id,
                filePath |-> Field(body, "filePath"), fileName |-> Field(body, "fileName"),
                content |-> Field(body, "content"),
                fileType |-> IF HasKey(body, "fileType") THEN Field(body, "fileType")
                             ELSE Str(TextText)]]
          /\ UNCHANGED <<projects, files, conversations, now, configured, last, arrived>>

\* db.saveProjectFile, first statement.
FileUpsert(w, ok) ==
  LET q == workers[w]
  IN /\ q.pc = "file_upsert"
     /\ IF ~ok
          THEN /\ Finish(w, "POST /:id/files", 500, FALSE, FALSE)
               /\ UNCHANGED <<files, now, arrived>>
          ELSE /\ now < MaxTime
               /\ files' = SaveFileStatement(files, now + 1, q.pid, q.filePath, q.fileName,
                                             q.content, q.fileType).files
               /\ arrived' = Arrive(arrived, Arrival(q.pid, q.filePath, q.fileName,
                                                     q.content, q.fileType))
               /\ now' = now + 1
               /\ workers' = [workers EXCEPT ![w].pc = "file_bump"]
               /\ UNCHANGED last
     /\ UNCHANGED <<projects, conversations, configured>>

\* db.saveProjectFile, second statement: the project's timestamp.
FileBump(w, ok) ==
  LET q == workers[w]
  IN /\ q.pc = "file_bump"
     /\ IF ~ok
          THEN /\ Finish(w, "POST /:id/files", 500, TRUE, FALSE)
               /\ UNCHANGED <<projects, now>>
          ELSE /\ now < MaxTime
               /\ projects' = BumpProject(projects, now + 1, q.pid)
               /\ now' = now + 1
               /\ Finish(w, "POST /:id/files", 200, TRUE, TRUE)
     /\ UNCHANGED <<files, conversations, configured, arrived>>

\* -------------------------------------------------------- POST /message
\* Everything up to the conversation save.
MessageReq(w, u, body, ok, success) ==
  /\ Free(w)
  /\ IF MessageCheck(projects, u, body, ok, configured, success) # 200
        \/ ~Truthy(Field(body, "projectId"))
       THEN UNCHANGED vars
     ELSE /\ workers' = [workers EXCEPT ![w] =
               [pc |-> "msg_insert", user |-> u, pid |-> Field(body, "projectId"),
                message |-> Str(Trim(Field(body, "message").v))]]
          /\ UNCHANGED <<projects, files, conversations, now, configured, last, arrived>>

\* db.saveConversation, first statement; a storage error is caught by the
\* handler, which still answers 200.
MsgInsert(w, ok) ==
  LET q == workers[w]
  IN /\ q.pc = "msg_insert"
     /\ IF ~ok
          THEN /\ Finish(w, "POST /message", 200, FALSE, FALSE)
               /\ UNCHANGED <<conversations, now>>
          ELSE /\ now < MaxTime
               /\ conversations' =
                    InsertConversation(conversations, now + 1, q.pid, q.user, q.message,
                                       GenerationResult.code, GenerationResult.model,
                                       GenerationResult.usage.total_tokens).conversations
               /\ now' = now + 1
               /\ workers' = [workers EXCEPT ![w].pc = "msg_bump"]
               /\ UNCHANGED last
     /\ UNCHANGED <<projects, files, configured, arrived>>

\* db.saveConversation, second statement: the project's timestamp.
MsgBump(w, ok) ==
  LET q == workers[w]
  IN /\ q.pc = "msg_bump"
     /\ IF ~ok
          THEN UNCHANGED <<projects, now>>
          ELSE /\ now < MaxTime
               /\ projects' = BumpProject(projects, now + 1, q.pid)
               /\ now' = now + 1
     /\ Finish(w, "POST /message", 200, TRUE, ok)
     /\ UNCHANGED <<files, conversations, configured, arrived>>

\* ------------------------------------- POST /explain, /improve, /tests
\* The three handlers store nothing.
ExplainReq(body, o) ==
  /\ ExplainRoute(body, configured, o).status \in {200, 400, 500, 503}
  /\ UNCHANGED vars

ImproveReq(body, o) ==
  /\ ImproveRoute(body, configured, o).status \in {200, 400, 500, 503}
  /\ UNCHANGED vars

TestsReq(body, o) ==
  /\ TestsRoute(body, configured, o).status \in {200, 400, 500, 503}
  /\ UNCHANGED vars

\* ------------------------------------------------------------------ POST /
\* After a template file was saved or its save failed: the next file, or
\* the 201 response.
NextTemplateFile(w, q, wrote, bumped) ==
  IF Len(q.todo) > 1
    THEN /\ workers' = [workers EXCEPT ![w] = [q EXCEPT !.pc = "tpl_upsert", !.todo = Tail(q.todo)]]
         /\ UNCHANGED last
    ELSE Finish(w, "POST /", 201, wrote, bumped)

\* router.post("/") up to db.createProject: the status of the early
\* response, 201 when the project is created.
CreateCheck(body, ok) ==
  IF Len(ValidateProjectData(body)) > 0 THEN 400 ELSE IF ~ok THEN 500 ELSE 201

\* Validation and db.createProject.
CreateReq(w, u, body, ok) ==
  LET name == Field(body, "name")
      description == Field(body, "description")
      template == Field(body, "template")
      r == CreateProject(projects, now + 1, u, Str(Trim(name.v)),
                         IF Truthy(description) THEN Str(Trim(description.v)) ELSE Str(<<>>),
                         template)
      todo == IF Truthy(template) THEN TemplateFiles(template) ELSE <<>>
  IN /\ Free(w)
     /\ IF CreateCheck(body, ok) # 201 THEN UNCHANGED vars
        ELSE /\ now < MaxTime
             /\ Cardinality(projects) < MaxProjects
             /\ projects' = r.projects
             /\ now' = now + 1
             /\ IF Len(todo) > 0
                  THEN /\ workers' = [workers EXCEPT ![w] =
                            [pc |-> "tpl_upsert", user |-> u, pid |-> r.ret.id, todo |-> todo]]
                       /\ UNCHANGED last
                  ELSE UNCHANGED <<workers, last>>
             /\ UNCHANGED <<files, conversations, configured, arrived>>

\* db.saveProjectFile of the next template file, first statement; an error
\* is caught and the loop goes on.
TplUpsert(w, ok) ==
  LET q == workers[w]
      f == Head(q.todo)
  IN /\ q.pc = "tpl_upsert"
     /\ IF ~ok
          THEN /\ NextTemplateFile(w, q, FALSE, FALSE)
               /\ UNCHANGED <<files, now, arrived>>
          ELSE /\ now < MaxTime
               /\ files' = SaveFileStatement(files, now + 1, q.pid, f.path, f.name,
                                             f.content, f.type).files
               /\ arrived' = Arrive(arrived, Arrival(q.pid, f.path, f.name, f.content, f.type))
               /\ now' = now + 1
               /\ workers' = [workers EXCEPT ![w].pc = "tpl_bump"]
               /\ UNCHANGED last
     /\ UNCHANGED <<projects, conversations, configured>>

\* db.saveProjectFile of a template file, second statement.
TplBump(w, ok) ==
  LET q == workers[w]
  IN /\ q.pc = "tpl_bump"
     /\ IF ~ok
          THEN UNCHANGED <<projects, now>>
          ELSE /\ now < MaxTime
               /\ projects' = BumpProject(projects, now + 1, q.pid)
               /\ now' = now + 1
     /\ NextTemplateFile(w, q, TRUE, ok)
     /\ UNCHANGED <<files, conversations, configured, arrived>>

\* ------------------------------------------------------------ specification
Next ==
  \/ \E u \in Users, ok \in BOOLEAN : GetProjectsReq(u, ok)
  \/ \E u \in Users, id \in RequestIds \cup {MalformedId}, ok \in BOOLEAN : GetProjectReq(u, id, ok)
  \/ \E u \in Users, id \in RequestIds, path \in RequestPaths, ok \in BOOLEAN :
       GetFileReq(u, id, path, ok)
  \/ \E u \in Users, id \in RequestIds \cup {MalformedId}, ok \in BOOLEAN :
       \E q \in {Undefined, Str(<<48>>)} : ConversationsReq(u, id, q, ok)
  \/ \E u \in Users, id \in RequestIds \cup {MalformedId}, body \in PutRequests, ok \in BOOLEAN :
       PutProjectReq(u, id, body, ok)
  \/ \E u \in Users, id \in RequestIds \cup {MalformedId}, ok \in BOOLEAN :
       DeleteProjectReq(u, id, ok)
  \/ \E u \in Users, id \in RequestIds, path \in RequestPaths \cup {Undefined}, ok \in BOOLEAN :
       DeleteFileReq(u, id, << <<"filePath", path>> >>, ok)
  \/ \E w \in Workers, u \in Users, id \in RequestIds, body \in FileRequests, ok \in BOOLEAN :
       FilePostReq(w, u, id, body, ok)
  \/ \E w \in Workers, ok \in BOOLEAN : FileUpsert(w, ok)
  \/ \E w \in Workers, ok \in BOOLEAN : FileBump(w, ok)
  \/ \E w \in Workers, u \in Users, body \in ChatBodies, ok \in BOOLEAN, success \in BOOLEAN :
       MessageReq(w, u, body, ok, success)
  \/ \E w \in Workers, ok \in BOOLEAN : MsgInsert(w, ok)
  \/ \E w \in Workers, ok \in BOOLEAN : MsgBump(w, ok)
  \/ \E w \in Workers, u \in Users, body \in CreateRequests, ok \in BOOLEAN :
       CreateReq(w, u, body, ok)
  \/ \E w \in Workers, ok \in BOOLEAN : TplUpsert(w, ok)
  \/ \E w \in Workers, ok \in BOOLEAN : TplBump(w, ok)
  \/ \E body \in CodeRequests, o \in ProviderRequests : ExplainReq(body, o)
  \/ \E body \in CodeRequests, o \in ProviderRequests : ImproveReq(body, o)
  \/ \E body \in CodeRequests, o \in ProviderRequests : TestsReq(body, o)

Spec == Init /\ [][Next]_vars

\* ------------------------------------------------------------------ claims
Limits == {1, DefaultLimit}

\* C1: a user who does not own a project gets from getProject,
\* getProjectFiles, getConversations and getProjectFile, called with that
\* project's id, exactly what an id that does not exist gives: absent or
\* the empty list, never a row of the project.
OwnershipIsolationOnReads ==
  \A p \in projects : \A u \in Users \ {p.user_id} :
    /\ GetProject(projects, p.id, u) = Absent
    /\ GetProject(projects, UnknownId, u) = Absent
    /\ GetProjectFiles(projects, files, p.id, u) = <<>>
    /\ GetProjectFiles(projects, files, UnknownId, u) = <<>>
    /\ \A limit \in Limits :
         /\ GetConversations(projects, conversations, p.id, u, limit) = <<>>
         /\ GetConversations(projects, conversations, UnknownId, u, limit) = <<>>
    /\ \A path \in RequestPaths :
         /\ GetProjectFile(projects, files, p.id, path, u) = Absent
         /\ GetProjectFile(projects, files, UnknownId, path, u) = Absent

\* A project whose owner reads files and conversations of it, while there
\* is another user.
OwnerReadsChildren ==
  \E p \in projects :
    /\ Users \ {p.user_id} # {}
    /\ GetProject(projects, p.id, p.user_id) = p
    /\ Len(GetProjectFiles(projects, files, p.id, p.user_id)) > 0
    /\ Len(GetConversations(projects, conversations, p.id, p.user_id, DefaultLimit)) > 0

\* C2: deleteProject by the owner returns the record with status deleted,
\* after which getProjects of the owner does not list the project and
\* getProject is absent; deleteProject by another user returns absent and
\* leaves the table as it was.
SoftDeleteHidesProject ==
  /\ \A p \in projects : \A u \in Users :
       LET r == DeleteProject(projects, now + 1, p.id, u)
           listed == GetProjects(r.projects, files, conversations, u)
       IN IF u = p.user_id
            THEN /\ r.ret # Absent
                 /\ r.ret.status = Str(DeletedText)
                 /\ r.ret.id = p.id
                 /\ r.ret \in r.projects
                 /\ \A i \in 1..Len(listed) : listed[i].id # p.id
                 /\ GetProject(r.projects, p.id, u) = Absent
            ELSE r.ret = Absent /\ r.projects = projects
  /\ \A p \in projects : p.status = Str(DeletedText) =>
       LET listed == GetProjects(projects, files, conversations, p.user_id)
       IN /\ GetProject(projects, p.id, p.user_id) = Absent
          /\ \A i \in 1..Len(listed) : listed[i].id # p.id

\* A project its owner has deleted.
ProjectWasDeleted ==
  \E p \in projects : p.status = Str(DeletedText) /\ p.updated_at = now

\* C3: once a project is deleted, getProjectFiles, getProjectFile and
\* getConversations, and the routes that call them, return none of its
\* files and conversations.
DeletedChildrenHidden ==
  \A p \in projects : p.status = Str(DeletedText) =>
    \A u \in Users :
      /\ GetProjectFiles(projects, files, p.id, u) = <<>>
      /\ GetConversations(projects, conversations, p.id, u, DefaultLimit) = <<>>
      /\ \A path \in RequestPaths :
           /\ GetProjectFile(projects, files, p.id, path, u) = Absent
           /\ GetFileRoute(projects, files, p.id, path, u, TRUE).status # 200

\* The position of a request that is about to write, or has written, a
\* child row of the project pid on behalf of user.
WritePcs == {"file_upsert", "file_bump", "msg_insert", "msg_bump", "tpl_upsert", "tpl_bump"}

\* C4: a handler reaches saveProjectFile or saveConversation only for a
\* project of the caller (it calls getProject first, or has just created the
\* project), so every request at a child write targets a project of its
\* caller, every file row belongs to a stored project and every
\* conversation carries the user_id of its project.
WritePathOwnership ==
  /\ \A w \in Workers : workers[w].pc \in WritePcs =>
       /\ RowOf(projects, workers[w].pid) # Absent
       /\ RowOf(projects, workers[w].pid).user_id = workers[w].user
  /\ \A c \in conversations : \E p \in projects : p.id = c.project_id /\ p.user_id = c.user_id
  /\ \A f \in files : \E p \in projects : p.id = f.project_id
  /\ \A p \in projects : \A u \in Users \ {p.user_id} : \A ok \in BOOLEAN :
       /\ \A body \in FileBodies : FilePostCheck(projects, p.id, u, body, ok) # 200
       /\ \A body \in ChatBodies : \A success \in BOOLEAN :
            Field(body, "projectId") = p.id =>
              MessageCheck(projects, u, body, ok, configured, success) # 200

\* A file and a conversation were written by requests of the owner while
\* another request of a user is at a child write.
ChildRowsWritten ==
  /\ files # {}
  /\ conversations # {}
  /\ \E w \in Workers : workers[w].pc \in WritePcs

\* The values an update mapping gives a column.
UpdateEntries ==
  { <<"name", Str(TextP)>>, <<"description", Str(TextD)>>, <<"description", Num(3)>>,
    <<"status", Str(ArchivedText)>>, <<"settings", Obj(1)>> }

\* The update mappings with one or two allowed fields.
UpdateMappings ==
  { <<e>> : e \in UpdateEntries }
  \cup { <<e[1], e[2]>> : e \in {x \in UpdateEntries \X UpdateEntries : x[1][1] # x[2][1]} }

MappedColumns(m) == {m[i][1] : i \in 1..Len(m)}

\* C5: updateProject with a mapping of at least one allowed field, on a
\* project of the caller, binds the i-th field to the i-th placeholder and
\* id and owner last, sets exactly the given columns to the given values,
\* sets updated_at to a later time and leaves every other column and every
\* other row as it was; for a project of another user it returns absent and
\* changes nothing.
UpdateChangesExactlyGivenFields ==
  \A p \in projects : \A u \in Users : \A m \in UpdateMappings :
    LET r == UpdateProject(projects, now + 1, p.id, u, m)
        fields == BuildFields(m)
        values == BuildValues(m, p.id, u)
    IN /\ \A i \in 1..Len(m) : fields[i] = [col |-> m[i][1], param |-> i] /\ values[i] = m[i][2]
       /\ values[Len(m) + 1] = p.id /\ values[Len(m) + 2] = u /\ Len(values) = Len(m) + 2
       /\ ~r.threw /\ r.queries = 1
       /\ IF u = p.user_id
            THEN /\ r.ret # Absent
                 /\ \A i \in 1..Len(m) : r.ret[m[i][1]] = PgValue(m[i][2])
                 /\ r.ret.updated_at = now + 1 /\ r.ret.updated_at > p.updated_at
                 /\ \A col \in (ProjectColumns \ {"updated_at"}) \ MappedColumns(m) :
                      r.ret[col] = p[col]
                 /\ r.projects = (projects \ {p}) \cup {r.ret}
            ELSE r.ret = Absent /\ r.projects = projects

\* A project that PUT /:id has updated: its status is the one the request
\* body gave.
ProjectWasUpdated ==
  \E p \in projects : p.status = Str(ArchivedText) /\ p.description = Str(TextD)
                      /\ p.updated_at = now /\ now > 1

\* C6: updateProject with an empty mapping throws before it sends a query,
\* and PUT /:id answers 400 without a persistence call when the body has no
\* allowed field; the projects table is unchanged in both cases.
EmptyMappingRejected ==
  \A u \in Users : \A id \in RequestIds :
    /\ LET r == UpdateProject(projects, now + 1, id, u, <<>>)
       IN r.threw /\ r.queries = 0 /\ r.projects = projects /\ r.ret = Absent
    /\ \A body \in PutBodies : \A ok \in BOOLEAN :
         FilteredUpdates(body) = <<>> =>
           PutProject(projects, now + 1, id, u, body, ok) =
             [status |-> 400, calls |-> 0, projects |-> projects]

\* The owner of a stored project sends PUT /:id with a body of keys that
\* are not allowed, and is answered 400.
OwnerSendsNoAllowedField ==
  \E p \in projects : \E body \in PutBodies :
    /\ Len(body) > 0
    /\ FilteredUpdates(body) = <<>>
    /\ p.status = Str(ActiveText)
    /\ PutProject(projects, now + 1, p.id, p.user_id, body, TRUE).status = 400
    /\ UpdateProject(projects, now + 1, p.id, p.user_id, <<>>).threw

\* C7: a statement that deletes a file of a project leaves the project's
\* updated_at at the time of the deletion or later, so that updated_at is
\* never older than the last mutation of a child.
FileDeletionAdvancesUpdatedAt ==
  [][\A f \in files \ files' :
       /\ RowOf(projects', f.project_id) # Absent
       /\ RowOf(projects', f.project_id).updated_at >= now']_vars

\* C8: no request that saved a child row has ended with the row written
\* and the project's updated_at not set, and a request that was answered
\* with an error has written nothing.
SaveIsOneUnit ==
  /\ last.wrote => last.bumped
  /\ last.status = 500 => ~last.wrote

\* C9: there is at most one row per (project_id, file_path), and its
\* content, file_name, file_type and size_bytes are those of the one call
\* whose upsert arrived last.
LastWriteWins ==
  /\ \A f \in files : \A g \in files :
       (f.project_id = g.project_id /\ f.file_path = g.file_path) => f = g
  /\ \A f \in files : \E a \in arrived :
       /\ a.project_id = f.project_id /\ a.file_path = f.file_path
       /\ f.content = StoredText(a.content)
       /\ f.file_name = StoredText(a.fileName)
       /\ f.file_type = StoredText(a.fileType)
       /\ f.size_bytes = ByteLength(a.content.v)
  /\ \A a \in arrived : \E f \in files :
       a.project_id = f.project_id /\ a.file_path = f.file_path

\* Two saves of one key were in flight together: the upsert of one has
\* been overwritten by the other's while the first still awaits its second
\* statement.
ConcurrentSaveOverwritten ==
  \E w \in Workers : \E f \in files :
    /\ workers[w].pc = "file_bump"
    /\ f.project_id = workers[w].pid
    /\ f.file_path = StoredText(workers[w].filePath)
    /\ f.content # StoredText(workers[w].content)
    /\ f.file_name # StoredText(workers[w].fileName)
    /\ \E v \in Workers \ {w} : workers[v].pc = "file_bump"

\* C10: every file row's size_bytes is the number of octets of the UTF-8
\* encoding of its content, whatever size the request body named.
SizeIsUtf8Length ==
  \A f \in files : f.size_bytes = Len(Utf8Encode(ToCodePoints(f.content.v)))

\* A stored file with multi-byte characters, saved by a request whose body
\* named another size.
MultiByteFileStored ==
  \E f \in files : \E body \in FileRequests :
    /\ HasKey(body, "sizeBytes")
    /\ f.content = StoredText(Field(body, "content"))
    /\ f.size_bytes # Field(body, "sizeBytes").v
    /\ f.size_bytes > Len(f.content.v)

\* The request bodies POST /:id/files hands to saveProjectFile.
SavableBodies ==
  {body \in FileBodies : /\ Truthy(Field(body, "filePath"))
                         /\ Truthy(Field(body, "fileName"))
                         /\ IsString(Field(body, "content"))}

\* C11: saveProjectFile called twice with the same project, path, name,
\* content and type leaves exactly one row for the key, with the content,
\* file_name, file_type and size_bytes the first call left, and leaves the
\* rows of every other key as they were.
SaveIsIdempotent ==
  \A p \in projects : \A body \in SavableBodies :
    LET fileType == IF HasKey(body, "fileType") THEN Field(body, "fileType") ELSE Str(TextText)
        first == SaveFileStatement(files, now + 1, p.id, Field(body, "filePath"),
                                   Field(body, "fileName"), Field(body, "content"), fileType)
        second == SaveFileStatement(first.files, now + 2, p.id, Field(body, "filePath"),
                                    Field(body, "fileName"), Field(body, "content"), fileType)
        key(F) == {f \in F : f.project_id = p.id
                             /\ f.file_path = StoredText(Field(body, "filePath"))}
    IN /\ key(first.files) = {first.ret}
       /\ key(second.files) = {second.ret}
       /\ second.ret.content = first.ret.content
       /\ second.ret.file_name = first.ret.file_name
       /\ second.ret.file_type = first.ret.file_type
       /\ second.ret.size_bytes = first.ret.size_bytes
       /\ second.files \ key(second.files) = files \ key(files)

\* Two requests with the same body for the same project have both sent
\* their upsert, and the key has one row with what they sent.
SameSaveTwice ==
  /\ workers[1].pc = "file_bump"
  /\ workers[2] = workers[1]
  /\ \E f \in files :
       /\ f.project_id = workers[1].pid
       /\ f.file_path = StoredText(workers[1].filePath)
       /\ f.content = StoredText(workers[1].content)
       /\ f.updated_at = now

\* C12: getConversations returns the limit most recent conversations of
\* the project, all of them when there are fewer, each once, in
\* non-decreasing order of created_at.
ConversationsMostRecentAscending ==
  \A p \in projects : \A limit \in Limits \cup {2} :
    LET all == {c \in conversations : c.project_id = p.id}
        r == GetConversations(projects, conversations, p.id, p.user_id, limit)
        got == {r[i] : i \in 1..Len(r)}
    IN /\ Len(r) = IF Cardinality(all) < limit THEN Cardinality(all) ELSE limit
       /\ Cardinality(got) = Len(r)
       /\ got \subseteq all
       /\ \A c \in all \ got : \A d \in got : c.created_at <= d.created_at
       /\ \A i \in 1..(Len(r) - 1) : r[i].created_at <= r[i + 1].created_at

\* A project with two conversations, of which a limit of one returns the
\* later and a limit of two returns both, the earlier first.
TwoConversationsStored ==
  \E p \in projects :
    LET one == GetConversations(projects, conversations, p.id, p.user_id, 1)
        two == GetConversations(projects, conversations, p.id, p.user_id, 2)
    IN /\ Cardinality({c \in conversations : c.project_id = p.id}) = 2
       /\ Len(one) = 1 /\ Len(two) = 2
       /\ one[1] = two[2]
       /\ two[1].created_at < two[2].created_at

\* C13: whatever the limit query parameter of GET /conversations/:projectId
\* is, the limit handed to getConversations is at most 100 and the answer
\* has at most as many conversations as the parameter asked for.
AnswerWithinRequestedLimit ==
  \A p \in projects : \A q \in QueryLimits :
    LET r == ConversationsLimitRoute(projects, conversations, p.id, p.user_id, q, TRUE)
    IN /\ r.limit <= MaxLimit
       /\ (r.status = 200 /\ ParseInt(q) # NaN) => Len(r.data) <= ParseInt(q).v

\* C14: getProjects of a user returns each active project of that user
\* once and nothing else, with the project's columns, file_count the number
\* of its file rows and conversation_count the number of its conversation
\* rows, the later updated_at first.
GetProjectsListsActiveOwned ==
  \A u \in Users :
    LET r == GetProjects(projects, files, conversations, u)
        mine == {p \in projects : p.user_id = u /\ p.status = Str(ActiveText)}
    IN /\ Len(r) = Cardinality(mine)
       /\ {r[i].id : i \in 1..Len(r)} = {p.id : p \in mine}
       /\ \A i \in 1..Len(r) :
            /\ \A col \in ProjectColumns : r[i][col] = RowOf(projects, r[i].id)[col]
            /\ r[i].file_count = Cardinality({f \in files : f.project_id = r[i].id})
            /\ r[i].conversation_count =
                 Cardinality({c \in conversations : c.project_id = r[i].id})
       /\ \A i \in 1..(Len(r) - 1) : r[i].updated_at >= r[i + 1].updated_at

\* A user with two active projects, one of them with a child row and the
\* other with none.
TwoProjectsListed ==
  \E u \in Users :
    LET r == GetProjects(projects, files, conversations, u)
    IN /\ Len(r) = 2
       /\ r[1].updated_at > r[2].updated_at
       /\ \E i \in 1..2 : r[i].file_count + r[i].conversation_count > 0
       /\ \E i \in 1..2 : r[i].file_count = 0 /\ r[i].conversation_count = 0
\* C15: every capability turns a provider error into a failure value of the
\* same shape and the same classification: for one provider error the four
\* capabilities return values with the same fields and the same message, and
\* each capability tells errors of different status apart.
ProviderErrorsUniformlyClassified ==
  configured =>
    \A o \in ProviderErrors :
      LET g == GenerateCode(configured, o).ret
          others == {ExplainCode(configured, o).ret,
                     SuggestImprovements(configured, o).ret,
                     GenerateTests(configured, o).ret}
      IN /\ g.success = FALSE
         /\ \A r \in others :
              /\ r.success = FALSE
              /\ DOMAIN r = DOMAIN g
              /\ r.error = g.error
         /\ \A o2 \in ProviderErrors :
              o2.status # o.status =>
                /\ ExplainCode(configured, o2).ret # ExplainCode(configured, o).ret
                /\ SuggestImprovements(configured, o2).ret
                     # SuggestImprovements(configured, o).ret
                /\ GenerateTests(configured, o2).ret # GenerateTests(configured, o).ret

\* C16: without a credential the four capabilities return one and the same
\* failure value and call the provider zero times; with a credential each
\* makes exactly one provider call.
NotConfiguredIsUniform ==
  \A o \in ProviderOutcomes :
    LET all == {GenerateCode(configured, o), ExplainCode(configured, o),
                SuggestImprovements(configured, o), GenerateTests(configured, o)}
    IN /\ configured => \A r \in all : r.calls = 1
       /\ ~configured =>
            /\ \A r \in all : r.calls = 0 /\ r.ret.success = FALSE
            /\ \A r1, r2 \in all : r1.ret.error = r2.ret.error

\* C17: on every route that takes a project identifier, an identifier that is
\* not UUID-formatted is answered 400 and no persistence call is made.
MalformedIdRejectedBeforeCore ==
  \A u \in Users, ok \in BOOLEAN :
    /\ LET r == GetProjectRoute(projects, files, conversations, MalformedId, u, ok)
       IN r.status = 400 /\ r.calls = 0
    /\ \A body \in PutBodies :
         LET r == PutProject(projects, now + 1, MalformedId, u, body, ok)
         IN r.status = 400 /\ r.calls = 0
    /\ LET r == DeleteProjectRoute(projects, now + 1, MalformedId, u, ok)
       IN r.status = 400 /\ r.calls = 0
    /\ \A q \in QueryLimits :
         LET r == ConversationsLimitRoute(projects, conversations, MalformedId, u, q, ok)
         IN r.status = 400 /\ r.calls = 0
    /\ \A success \in BOOLEAN :
         MessageCheck(projects, u,
                      << <<"message", Str(TextHello)>>, <<"projectId", MalformedId>> >>,
                      ok, configured, success) = 400
    /\ \A body \in FileRequests : FilePostCheck(projects, MalformedId, u, body, ok) = 400
    /\ \A path \in RequestPaths :
         /\ LET r == GetFileRoute(projects, files, MalformedId, path, u, ok)
            IN r.status = 400 /\ r.calls = 0
         /\ LET r == DeleteFileRoute(projects, files, MalformedId,
                                     << <<"filePath", path>> >>, u, ok)
            IN r.status = 400 /\ r.calls = 0

\* C18: every project's status is active or deleted.
StatusIsActiveOrDeleted ==
  \A p \in projects : p.status \in {Str(ActiveText), Str(DeletedText)}

\* C19: every project's name is a string of 1 to 255 characters.
NameIsNonEmptyAndShort ==
  \A p \in projects :
    IsString(p.name) /\ Len(p.name.v) >= 1 /\ Len(p.name.v) <= NameLimit

\* One PUT of any body, by any user, on any project leaves the ids and the
\* owners as they were.
PutKeepsIdAndOwner ==
  \A p \in projects, u \in Users, body \in PutBodies :
    LET r == PutProject(projects, now + 1, p.id, u, body, TRUE)
    IN /\ {q.id : q \in r.projects} = {q.id : q \in projects}
       /\ \A q \in r.projects : q.user_id = RowOf(projects, q.id).user_id

\* C20: no step changes the id or the owner of an existing project: every
\* project row is still there afterwards with the same id and user_id, and a
\* PUT of any body, whatever keys it has, leaves both as they were.
IdAndOwnerNeverChange ==
  /\ []PutKeepsIdAndOwner
  /\ [][\A p \in projects :
          /\ Cardinality({q \in projects' : q.id = p.id}) = 1
          /\ \A q \in projects' : q.id = p.id => q.user_id = p.user_id]_vars

\* C20 witness: the owner's PUT naming another owner and another id is
\* accepted.
PutNamingOtherOwnerAccepted ==
  \E p \in projects, body \in PutBodies :
    /\ HasKey(body, "user_id") /\ Field(body, "user_id") # p.user_id
    /\ PutProject(projects, now + 1, p.id, p.user_id, body, TRUE).status = 200

\* C21: deleteProjectFile(P, path, U) removes the row and returns it when P
\* is owned by U and the row exists, after which getProjectFile is absent and
\* getProjectFiles no longer lists the path while every other row stays; when
\* P is not owned by U or the row does not exist it returns nothing and
\* removes nothing.
FileDeletionIsOwnedHardRemoval ==
  \A u \in Users, id \in RequestIds, path \in RequestPaths :
    LET r == DeleteProjectFile(projects, files, id, path, u)
        owned == \E p \in projects : p.id = id /\ p.user_id = u
        rows == {f \in files : f.project_id = id /\ f.file_path = StoredText(path)}
        listed == GetProjectFiles(projects, r.files, id, u)
    IN IF owned /\ rows # {}
         THEN /\ r.ret \in rows
              /\ r.files = files \ rows
              /\ GetProjectFile(projects, r.files, id, path, u) = Absent
              /\ \A i \in 1..Len(listed) : listed[i].file_path # StoredText(path)
              /\ Len(listed) = Len(GetProjectFiles(projects, files, id, u)) - 1
         ELSE r.ret = Absent /\ r.files = files

\* C21 witness: a row that a save wrote has been deleted by its owner while
\* the save is still between its two statements.
SavedFileWasDeleted ==
  \E w \in Workers :
    /\ workers[w].pc = "file_bump"
    /\ ~\E f \in files : /\ f.project_id = workers[w].pid
                         /\ f.file_path = StoredText(workers[w].filePath)
    /\ GetProjectFile(projects, files, workers[w].pid, workers[w].filePath,
                      workers[w].user) = Absent

\* C22: a file save never writes a file row into, nor sets the updated_at
\* of, a project whose status is deleted at the moment of the write.
SaveNeverWritesIntoDeletedProject ==
  [][\A w \in Workers :
       /\ (workers[w].pc = "file_upsert" /\ workers'[w] # workers[w] /\ files' # files)
            => RowOf(projects, workers[w].pid).status # Str(DeletedText)
       /\ (workers[w].pc = "file_bump" /\ workers'[w] # workers[w] /\ projects' # projects)
            => RowOf(projects, workers[w].pid).status # Str(DeletedText)]_vars

\* C23: soft delete is terminal: a project row whose status is deleted is
\* left as it is by every step, so that none of its fields changes and it
\* stays out of getProject and getProjects.
SoftDeleteIsTerminal ==
  [][\A p \in projects :
       p.status = Str(DeletedText) =>
         /\ p \in projects'
         /\ GetProject(projects', p.id, p.user_id) = Absent]_vars

\* The handler goes on to the conversation save only for a valid body, a
\* project that db.getProject found for the caller, a configured gateway and
\* a generation that succeeded.
MessageGoesOnOnlyWhenAllPassed ==
  \A u \in Users, body \in ChatBodies, ok \in BOOLEAN, success \in BOOLEAN :
    LET projectId == Field(body, "projectId")
    IN MessageCheck(projects, u, body, ok, configured, success) = 200 =>
         /\ Len(ValidateChatMessage(body)) = 0
         /\ configured /\ success
         /\ Truthy(projectId) =>
              /\ UuidTest(projectId) /\ ok
              /\ GetProject(projects, projectId, u) # Absent

\* What a step may do to the conversations and around a conversation save.
MessageSaveStep ==
  /\ \A w \in Workers :
       /\ (workers[w].pc = "idle" /\ workers'[w].pc = "msg_insert") =>
            /\ configured
            /\ UuidTest(workers'[w].pid)
            /\ GetProject(projects, workers'[w].pid, workers'[w].user) # Absent
            /\ conversations' = conversations /\ projects' = projects
       /\ (workers[w].pc \in {"msg_insert", "msg_bump"} /\ workers'[w].pc = "idle") =>
            /\ last'.route = "POST /message" /\ last'.status = 200
            /\ conversations' = conversations
            /\ ~last'.bumped => projects' = projects
  /\ conversations' # conversations =>
       \E w \in Workers :
         /\ workers[w].pc = "msg_insert" /\ workers'[w].pc = "msg_bump"
         /\ conversations \subseteq conversations'
         /\ Cardinality(conversations' \ conversations) = 1
         /\ \A c \in conversations' \ conversations :
              /\ c.project_id = workers[w].pid /\ c.user_id = workers[w].user
              /\ c.message = workers[w].message
              /\ c.response = GenerationResult.code

\* C24: POST /message persists a conversation only when a projectId was
\* given, the project passed the ownership check and the generation
\* succeeded: a request starts its save only then, a conversation row is added
\* only by the first statement of such a save and carries its project and
\* user, a request that does not start a save changes nothing, and a save
\* that fails at either statement still ends with the answer 200 (the
\* handler's conversation stays null, so no conversationId is sent).
MessagePersistsOnlyOnSuccess ==
  /\ []MessageGoesOnOnlyWhenAllPassed
  /\ [][MessageSaveStep]_vars

\* C24 witness: a conversation is stored, and the last POST /message was
\* answered 200 although its save failed at the first statement.
MessageAnsweredAfterFailedSave ==
  /\ conversations # {}
  /\ last.route = "POST /message" /\ last.status = 200
  /\ ~last.wrote /\ ~last.bumped

====
